---- MODULE Spec2Model ----
(***************************************************************************)
(* TruthLens frontend: the request lifecycle of frontend/js/api.js and the *)
(* presentation state machine and orchestrator of frontend/js/ui.js.       *)
(*                                                                         *)
(* The page is single threaded: a handler runs to its next await, and the  *)
(* continuations of a settled promise run before any other event.  One     *)
(* action is therefore one handler run, or one network/timer event with    *)
(* the continuations it resumes.  The markup is not among the sources, so  *)
(* an event may be dispatched to a listener whenever the listener is       *)
(* installed (app and ui are also exported on window, ui.js:532).          *)
(*                                                                         *)
(* Of the page the model follows the classes, text contents and display    *)
(* styles the code writes and the intervals it starts; the animated bar    *)
(* widths, the scrolling, the colours and the locale-formatted timestamp   *)
(* are left out.                                                           *)
(*                                                                         *)
(* Spec follows the request lifecycle from page load, with typed fields,   *)
(* all response statuses, failures and the timeout.  SpecValidate,         *)
(* SpecRender and SpecTyping start from the ready page and follow the      *)
(* validator, the renderer with the tabs and the rotation interval, and    *)
(* the typing intervals.  An interval fires only in the specification      *)
(* that has its action; elsewhere it stays pending.                        *)
(***************************************************************************)
EXTENDS Integers, Sequences, FiniteSets, TLC

VARIABLES
    ui,        \* TruthLensUI fields and the DOM nodes and timers it writes
    app,       \* TruthLensApp: isAnalyzing, and whether listeners are installed
    req,       \* per operation, the state of its TruthLensAPI.makeRequest call
    console    \* the last line written to the console

vars == <<ui, app, req, console>>

-----------------------------------------------------------------------------
(* Program constants *)

REQUEST_TIMEOUT == 600000
TITLE_MIN == 5
TITLE_MAX == 500
TEXT_MIN == 20
TEXT_MAX == 10000
SAMPLE_TITLE_LEN == 78
SAMPLE_FAKE_TEXT_LEN == 277
SAMPLE_REAL_TEXT_LEN == 283
REQUEST_ID_SHOWN == 13

(* Bounds of the model *)

TickMs == 600000      \* milliseconds that pass in one Tick
MaxTicks == 2         \* ticks followed for one request
MaxPad == 1           \* whitespace typed around a field's content
MaxTimers == 2        \* interval ids the page hands out at the same time
MaxCalls == 2         \* makeRequest calls followed at the same time
MaxTyping == 2        \* typing intervals live at the same time

-----------------------------------------------------------------------------
(* Messages *)

MSG_TIMEOUT == "Request timed out. The analysis is taking longer than expected."
MSG_UNEXPECTED == "An unexpected error occurred. Please try again."
MSG_TITLE_SHORT == "Title must be at least 5 characters long"
MSG_TITLE_LONG == "Title must be less than 500 characters"
MSG_TEXT_SHORT == "Article text must be at least 20 characters long"
MSG_TEXT_LONG == "Article text must be less than 10,000 characters"
\* messages of the errors the platform raises inside makeRequest
MSG_FETCH_FAILED == "Failed to fetch"
MSG_JSON_SYNTAX == "Unexpected token < in JSON at position 0"
MSG_NULL_PROPERTY == "Cannot read properties of null (reading 'error')"
\* message of the error detectFakeNews raises when it logs response.prediction
MSG_NULL_PREDICTION == "Cannot read properties of null (reading 'prediction')"

\* `HTTP error! status: ${response.status}` for the statuses the model uses
HttpErrorMessage(status) ==
    CASE status = 404 -> "HTTP error! status: 404"
      [] status = 500 -> "HTTP error! status: 500"
      [] status = 503 -> "HTTP error! status: 503"
      [] OTHER -> "HTTP error! status: ?"

-----------------------------------------------------------------------------
(* Strings of the form fields: `lead` whitespace characters, then `core`   *)
(* characters that begin and end with a non-blank one, then `trail`        *)
(* whitespace characters.                                                  *)

Str(lead, core, trail) == [lead |-> lead, core |-> core, trail |-> trail]

EmptyStr == Str(0, 0, 0)

\* String.prototype.length
Length(s) == s.lead + s.core + s.trail

\* String.prototype.trim
Trim(s) == Str(0, s.core, 0)

\* titles at the limits of the validator, with and without padding
BoundaryTitles ==
    { Str(MaxPad, TITLE_MIN - 1, MaxPad), Str(0, TITLE_MIN, 0),
      Str(MaxPad, TITLE_MAX, MaxPad), Str(0, TITLE_MAX + 1, 0) }

\* texts at the limits of the validator, with and without padding
BoundaryTexts ==
    { Str(MaxPad, TEXT_MIN - 1, MaxPad), Str(0, TEXT_MIN, 0),
      Str(MaxPad, TEXT_MAX, MaxPad), Str(0, TEXT_MAX + 1, 0) }

\* what the user types in the title field: too short, good, too long
TitleValues ==
    { Str(MaxPad, TITLE_MIN - 1, MaxPad), Str(MaxPad, TITLE_MAX, MaxPad),
      Str(0, TITLE_MAX + 1, 0) }

\* what the user types in the text field: too short, good, too long
TextValues ==
    { Str(MaxPad, TEXT_MIN - 1, MaxPad), Str(0, TEXT_MIN, 0),
      Str(0, TEXT_MAX + 1, 0) }

\* CONFIG.SAMPLES
SAMPLES ==
    [ FAKE |-> [title |-> Str(0, SAMPLE_TITLE_LEN, 0), text |-> Str(0, SAMPLE_FAKE_TEXT_LEN, 0)],
      REAL |-> [title |-> Str(0, SAMPLE_TITLE_LEN, 0), text |-> Str(0, SAMPLE_REAL_TEXT_LEN, 0)] ]

-----------------------------------------------------------------------------
(* JSON values a response body can carry *)

Null == [type |-> "null"]

\* {error: string}, the backend's structured error payload
ErrorPayload == [type |-> "object", error |-> "Model not loaded"]

\* a JSON object that has no `error` member
DetailPayload == [type |-> "object", detail |-> "Not Found"]

HealthPayload == [type |-> "object", is_model_loaded |-> TRUE]

\* AnalysisResult bodies.  Probabilities are kept in tenths of a percent
\* (0.875 is 875), strings that the page cuts or types are character
\* sequences.
FakeResult ==
    [ type |-> "object", prediction |-> "Fake",
      confidence |-> 875, fake_probability |-> 875, real_probability |-> 125,
      explanation |-> <<"f", "a", "k">>,
      word_highlights |-> << [word |-> "secret", direction |-> "fake"],
                             [word |-> "confirmed", direction |-> "real"] >>,
      processing_time_ms |-> 1234,
      request_id |-> <<"r", "e", "q", "-", "0", "0", "0", "1", "-",
                       "a", "a", "a", "a", "-", "b", "b", "b", "b">> ]

RealResult ==
    [ type |-> "object", prediction |-> "Real",
      confidence |-> 910, fake_probability |-> 90, real_probability |-> 910,
      explanation |-> <<"o", "k">>,
      word_highlights |-> << >>,
      processing_time_ms |-> 980,
      request_id |-> <<"r", "e", "q", "-", "0", "0", "0", "2", "-",
                       "c", "c", "c", "c", "-", "d", "d", "d", "d">> ]

\* a 200 body without word_highlights, whose request_id is short
BareResult ==
    [ type |-> "object", prediction |-> "Real",
      confidence |-> 600, fake_probability |-> 400, real_probability |-> 600,
      explanation |-> <<"o", "k">>,
      processing_time_ms |-> 50,
      request_id |-> <<"r", "e", "q", "-", "3">> ]

\* a 200 body that lacks request_id
NoIdResult ==
    [ type |-> "object", prediction |-> "Fake",
      confidence |-> 875, fake_probability |-> 875, real_probability |-> 125,
      explanation |-> <<"f", "a", "k">>,
      word_highlights |-> << [word |-> "secret", direction |-> "fake"] >>,
      processing_time_ms |-> 1234 ]

\* a response body: text that JSON.parse accepts, giving `value`, or rejects
JsonBody(v) == [parses |-> TRUE, text |-> "json", value |-> v]
HtmlBody == [parses |-> FALSE, text |-> "html", value |-> Null]
\* no body read yet
NoBody == [parses |-> FALSE, text |-> "", value |-> Null]

\* bodies the backend may send, by operation and by response.ok
Bodies(op, ok) ==
    IF ~ok THEN { JsonBody(ErrorPayload), JsonBody(DetailPayload), JsonBody(Null), HtmlBody }
    ELSE IF op = "health" THEN { JsonBody(HealthPayload), JsonBody(Null), HtmlBody }
    ELSE { JsonBody(FakeResult), JsonBody(RealResult), JsonBody(BareResult),
           JsonBody(NoIdResult), JsonBody(Null), HtmlBody }

Statuses == {200, 500}

\* Response.ok
Ok(status) == status >= 200 /\ status <= 299

\* RequestOutcome
Success(data) == [success |-> TRUE, data |-> data, error |-> ""]
Failure(message) == [success |-> FALSE, data |-> Null, error |-> message]

-----------------------------------------------------------------------------
(* TruthLensAPI.makeRequest (api.js:15-45).  A call is in phase "fetch"    *)
(* while fetch() is pending and in phase "body" while response.json() is   *)
(* pending; `timer` says whether the abort timer of line 17 is still       *)
(* armed, `elapsed` is the time since the call started.                    *)

\* the slots in which the model follows calls
Calls == 1..MaxCalls

IdleCall ==
    [ op |-> "none", phase |-> "idle", elapsed |-> 0, timer |-> FALSE, status |-> 0,
      body |-> NoBody, outcome |-> Failure("") ]

\* lines 16-27: the controller, the abort timer and the fetch
StartCall(op) == [IdleCall EXCEPT !.op = op, !.phase = "fetch", !.timer = TRUE]

\* line 29: fetch resolved with a response, the abort timer is cleared
ResponseReceived(call, status) ==
    [call EXCEPT !.phase = "body", !.status = status, !.timer = FALSE]

Outstanding(call) == call.phase \in {"fetch", "body"}

\* lines 31-34: the error thrown for a response that is not ok, as the
\* catch of line 37 rethrows it
ErrorOfResponse(status, body) ==
    IF ~body.parses THEN MSG_JSON_SYNTAX
    ELSE IF body.value = Null THEN MSG_NULL_PROPERTY
    ELSE IF "error" \in DOMAIN body.value /\ body.value.error # ""
         THEN body.value.error
    ELSE HttpErrorMessage(status)

\* lines 31-44 once the body has been read: what makeRequest returns or throws
BodyResult(status, body) ==
    IF ~Ok(status) THEN [threw |-> TRUE, value |-> Null, message |-> ErrorOfResponse(status, body)]
    ELSE IF ~body.parses THEN [threw |-> TRUE, value |-> Null, message |-> MSG_JSON_SYNTAX]
    ELSE [threw |-> FALSE, value |-> body.value, message |-> ""]

\* lines 37-44 for a rejected fetch: `name` is error.name
CatchResult(name, message) ==
    [ threw |-> TRUE, value |-> Null,
      message |-> IF name = "AbortError" THEN MSG_TIMEOUT ELSE message ]

\* checkHealth (api.js:50-65) and detectFakeNews (api.js:70-99) around
\* makeRequest; detectFakeNews reads response.prediction inside its try
OutcomeOf(op, result) ==
    IF result.threw THEN Failure(result.message)
    ELSE IF op = "detect" /\ result.value = Null THEN Failure(MSG_NULL_PREDICTION)
    ELSE Success(result.value)

Settled(call, body, outcome) ==
    [ op |-> call.op, phase |-> "settled", elapsed |-> 0, timer |-> FALSE, status |-> call.status,
      body |-> body, outcome |-> outcome ]

-----------------------------------------------------------------------------
(* TruthLensUI (ui.js:6-337).  `hidden` holds, per section, whether its    *)
(* classList has 'hidden'; `intervals` is the set of live message-rotation *)
(* intervals and `loadingInterval` the handle the object keeps (0 when it  *)
(* keeps none).                                                            *)

Sections == {"form", "loading", "results", "error"}

\* the values of data-tab on the tab buttons
Tabs == {"all", "fake", "real"}

\* CONFIG.UI.LOADING_MESSAGES
LOADING_MESSAGES ==
    << "Running AI model prediction...", "Analyzing text patterns...",
       "Generating word importance scores...", "Creating human-readable explanation..." >>

\* the document as served: the form section shown, the others hidden, the
\* All tab active, the first status string in the loading section and
\* nothing in the results section
Markup ==
    [ hidden |-> [form |-> FALSE, loading |-> TRUE, results |-> TRUE, error |-> TRUE],
      errorMessage |-> "",
      newsTitle |-> EmptyStr,
      newsText |-> EmptyStr,
      charCount |-> 0,
      loadingStep |-> LOADING_MESSAGES[1],
      activeTabs |-> {"all"},
      badge |-> [class |-> "", text |-> "", confidence |-> 0],
      probValues |-> [fake |-> 0, real |-> 0],
      explanationText |-> << >>,
      highlightsGrid |-> << >>,
      processingTime |-> 0,
      requestId |-> [text |-> << >>, title |-> << >>] ]

\* constructor (ui.js:7-10) over the served document.  `messageIndex` holds
\* the counter of each live rotation interval, `typing` the live typing
\* intervals with their text and counter, oldest first.
NewUI ==
    [ hidden |-> Markup.hidden,
      errorMessage |-> Markup.errorMessage,
      newsTitle |-> Markup.newsTitle,
      newsText |-> Markup.newsText,
      charCount |-> Markup.charCount,
      loadingStep |-> Markup.loadingStep,
      activeTabs |-> Markup.activeTabs,
      badge |-> Markup.badge,
      probValues |-> Markup.probValues,
      explanationText |-> Markup.explanationText,
      highlightsGrid |-> Markup.highlightsGrid,
      processingTime |-> Markup.processingTime,
      requestId |-> Markup.requestId,
      currentTab |-> "all",
      currentResults |-> Null,
      loadingInterval |-> 0,
      intervals |-> {},
      messageIndex |-> << >>,
      typing |-> << >> ]

Visible(u) == {s \in Sections : ~u.hidden[s]}

\* ids setInterval can return next
FreeIds(u) == (1..MaxTimers) \ u.intervals

Lowest(S) == CHOOSE i \in S : \A j \in S : i <= j

\* showLoading (ui.js:15-37)
showLoading(u) ==
    LET id == Lowest(FreeIds(u))
    IN  [u EXCEPT !.hidden = [form |-> TRUE, loading |-> FALSE, results |-> TRUE, error |-> TRUE],
                  !.intervals = @ \cup {id},
                  !.messageIndex = [i \in DOMAIN @ \cup {id} |-> IF i = id THEN 0 ELSE @[i]],
                  !.loadingInterval = id]

\* the callback of the rotation interval (ui.js:30-33)
rotateMessage(u, id) ==
    LET next == (u.messageIndex[id] + 1) % Len(LOADING_MESSAGES)
    IN  [u EXCEPT !.messageIndex[id] = next,
                  !.loadingStep = LOADING_MESSAGES[next + 1]]

\* clearInterval on a rotation interval: its callback and counter are gone
clearRotation(u, id) ==
    [u EXCEPT !.intervals = @ \ {id},
              !.messageIndex = [i \in DOMAIN @ \ {id} |-> @[i]]]

\* hideLoading (ui.js:42-47)
hideLoading(u) ==
    IF u.loadingInterval # 0
    THEN [clearRotation(u, u.loadingInterval) EXCEPT !.loadingInterval = 0]
    ELSE u

\* updateResultHeader (ui.js:80-95) reads data.prediction
HeaderThrows(data) == data = Null

\* updateMetadata (ui.js:214-230) calls data.request_id.substring
MetadataThrows(data) == "request_id" \notin DOMAIN data

\* updateResultHeader (ui.js:80-95)
updateResultHeader(u, data) ==
    LET isFake == data.prediction = "Fake"
    IN  [u EXCEPT !.badge = [class |-> IF isFake THEN "result-badge fake" ELSE "result-badge real",
                             text |-> IF isFake THEN "Fake News Detected" ELSE "Likely Credible",
                             confidence |-> data.confidence]]

\* updateProbabilityBars (ui.js:100-111): the two percentages
updateProbabilityBars(u, data) ==
    [u EXCEPT !.probValues = [fake |-> data.fake_probability, real |-> data.real_probability]]

\* updateExplanation (ui.js:123-139): the text is cleared and a typing
\* interval is started
updateExplanation(u, data) ==
    [u EXCEPT !.explanationText = << >>,
              !.typing = Append(@, [text |-> data.explanation, index |-> 0])]

\* the callback of typing interval k (ui.js:131-138)
typeNext(u, k) ==
    LET t == u.typing[k]
    IN  IF t.index < Len(t.text)
        THEN [u EXCEPT !.explanationText = Append(@, t.text[t.index + 1]),
                       !.typing[k].index = @ + 1]
        ELSE [u EXCEPT !.typing = SubSeq(@, 1, k - 1) \o SubSeq(@, k + 1, Len(@))]

\* the placeholder paragraph of ui.js:151
Placeholder ==
    [tag |-> "p", class |-> "text-center", word |-> "No word highlights available", display |-> ""]

\* document.querySelectorAll('.highlight-item') over the children of the grid
IsHighlightItem(node) == node.tag = "div"

\* the display an item gets under a tab (ui.js:171-175, 194-198)
DisplayUnder(tab, direction) ==
    IF tab = "all" \/ tab = direction THEN "flex" ELSE "none"

\* updateWordHighlights that renders every item visible
updateWordHighlights_allVisible(u, data) ==
    LET highlights == IF "word_highlights" \in DOMAIN data THEN data.word_highlights ELSE << >>
    IN  IF Len(highlights) = 0
        THEN [u EXCEPT !.highlightsGrid = <<Placeholder>>]
        ELSE [u EXCEPT !.highlightsGrid =
                 [i \in 1..Len(highlights) |->
                     [ tag |-> "div", class |-> highlights[i].direction,
                       word |-> highlights[i].word, display |-> "flex" ]]]

\* updateWordHighlights that does not empty the grid before it appends
updateWordHighlights_appends(u, data) ==
    LET highlights == IF "word_highlights" \in DOMAIN data THEN data.word_highlights ELSE << >>
    IN  IF Len(highlights) = 0
        THEN [u EXCEPT !.highlightsGrid = <<Placeholder>>]
        ELSE [u EXCEPT !.highlightsGrid = @ \o
                 [i \in 1..Len(highlights) |->
                     [ tag |-> "div", class |-> highlights[i].direction,
                       word |-> highlights[i].word,
                       display |-> DisplayUnder(u.currentTab, highlights[i].direction) ]]]

\* updateWordHighlights (ui.js:144-179)
updateWordHighlights(u, data) ==
    LET highlights == IF "word_highlights" \in DOMAIN data THEN data.word_highlights ELSE << >>
    IN  IF Len(highlights) = 0
        THEN [u EXCEPT !.highlightsGrid = <<Placeholder>>]
        ELSE [u EXCEPT !.highlightsGrid =
                 [i \in 1..Len(highlights) |->
                     [ tag |-> "div", class |-> highlights[i].direction,
                       word |-> highlights[i].word,
                       display |-> DisplayUnder(u.currentTab, highlights[i].direction) ]]]

\* the direction filterHighlights reads off an item (ui.js:192)
DirectionOf(node) == IF node.class = "fake" THEN "fake" ELSE "real"

\* filterHighlights that matches the tab against the direction only
filterHighlights_noAll(u, tab) ==
    LET chosen == [u EXCEPT !.currentTab = tab]
        grid == u.highlightsGrid
    IN  IF chosen.currentResults = Null THEN chosen
        ELSE [chosen EXCEPT
                !.highlightsGrid =
                    [i \in DOMAIN grid |->
                        IF IsHighlightItem(grid[i])
                        THEN [grid[i] EXCEPT
                                !.display = IF tab = DirectionOf(grid[i]) THEN "flex" ELSE "none"]
                        ELSE grid[i]],
                !.activeTabs = {tab} \cap Tabs]

\* filterHighlights (ui.js:184-209)
filterHighlights(u, tab) ==
    LET chosen == [u EXCEPT !.currentTab = tab]
        grid == u.highlightsGrid
    IN  IF chosen.currentResults = Null THEN chosen
        ELSE [chosen EXCEPT
                !.highlightsGrid =
                    [i \in DOMAIN grid |->
                        IF IsHighlightItem(grid[i])
                        THEN [grid[i] EXCEPT !.display = DisplayUnder(tab, DirectionOf(grid[i]))]
                        ELSE grid[i]],
                !.activeTabs = {tab} \cap Tabs]

\* String.prototype.substring(0, n)
Substring(str, n) == SubSeq(str, 1, IF Len(str) < n THEN Len(str) ELSE n)

\* Number.prototype.toFixed(1) of ms / 1000, in tenths of a second
TenthsOfSecond(ms) == (ms + 50) \div 100

\* updateMetadata that puts the shortened id in the title as well
updateMetadata_cutsTitle(u, data) ==
    LET timed == [u EXCEPT !.processingTime = TenthsOfSecond(data.processing_time_ms)]
    IN  IF MetadataThrows(data) THEN timed
        ELSE [timed EXCEPT !.requestId =
                 [ text |-> Substring(data.request_id, REQUEST_ID_SHOWN) \o <<".", ".", ".">>,
                   title |-> Substring(data.request_id, REQUEST_ID_SHOWN) ]]

\* updateMetadata (ui.js:214-230)
updateMetadata(u, data) ==
    LET timed == [u EXCEPT !.processingTime = TenthsOfSecond(data.processing_time_ms)]
    IN  IF MetadataThrows(data) THEN timed
        ELSE [timed EXCEPT !.requestId =
                 [ text |-> Substring(data.request_id, REQUEST_ID_SHOWN) \o <<".", ".", ".">>,
                   title |-> data.request_id ]]

\* the updates of showResults (ui.js:67-71), up to the first that throws
updateResultElements(u, data) ==
    IF HeaderThrows(data) THEN u
    ELSE updateMetadata(
            updateWordHighlights(
               updateExplanation(
                  updateProbabilityBars(updateResultHeader(u, data), data), data), data), data)

\* showResults that does not call hideLoading
showResults_keepsTimer(u, data) ==
    LET shown == [u EXCEPT
                    !.currentResults = data,
                    !.hidden = [form |-> TRUE, loading |-> TRUE, results |-> FALSE, error |-> TRUE]]
    IN  [ui |-> updateResultElements(shown, data),
         threw |-> HeaderThrows(data) \/ MetadataThrows(data)]

\* showResults (ui.js:52-75): the page it leaves, and whether it threw
showResults(u, data) ==
    LET shown == [hideLoading(u) EXCEPT
                    !.currentResults = data,
                    !.hidden = [form |-> TRUE, loading |-> TRUE, results |-> FALSE, error |-> TRUE]]
    IN  [ui |-> updateResultElements(shown, data),
         threw |-> HeaderThrows(data) \/ MetadataThrows(data)]

\* showError that forgets to hide the results section
showError_keepsResults(u, message) ==
    [hideLoading(u) EXCEPT
        !.hidden = [form |-> TRUE, loading |-> TRUE, results |-> u.hidden.results, error |-> FALSE],
        !.errorMessage = message]

\* showError (ui.js:235-253)
showError(u, message) ==
    [hideLoading(u) EXCEPT
        !.hidden = [form |-> TRUE, loading |-> TRUE, results |-> TRUE, error |-> FALSE],
        !.errorMessage = message]

\* resetToForm that leaves the text field and its count as they are
resetToForm_keepsText(u) ==
    [hideLoading(u) EXCEPT
        !.hidden = [form |-> FALSE, loading |-> TRUE, results |-> TRUE, error |-> TRUE],
        !.newsTitle = EmptyStr]

\* resetToForm (ui.js:258-278)
resetToForm(u) ==
    [hideLoading(u) EXCEPT
        !.hidden = [form |-> FALSE, loading |-> TRUE, results |-> TRUE, error |-> TRUE],
        !.newsTitle = EmptyStr,
        !.newsText = EmptyStr,
        !.charCount = 0]

\* updateCharCount (ui.js:304-319)
updateCharCount(u) == [u EXCEPT !.charCount = Length(u.newsText)]

\* fillSample (ui.js:283-299)
fillSample(u, type) ==
    IF type \notin DOMAIN SAMPLES THEN u
    ELSE updateCharCount([u EXCEPT !.newsTitle = SAMPLES[type].title,
                                   !.newsText = SAMPLES[type].text])

-----------------------------------------------------------------------------
(* TruthLensApp (ui.js:347-525) *)

\* validateInputs with the text rules ahead of the title rules
validateInputs_textFirst(u, title, text) ==
    IF Length(text) < TEXT_MIN THEN [ok |-> FALSE, ui |-> showError(u, MSG_TEXT_SHORT)]
    ELSE IF Length(text) > TEXT_MAX THEN [ok |-> FALSE, ui |-> showError(u, MSG_TEXT_LONG)]
    ELSE IF Length(title) < TITLE_MIN THEN [ok |-> FALSE, ui |-> showError(u, MSG_TITLE_SHORT)]
    ELSE IF Length(title) > TITLE_MAX THEN [ok |-> FALSE, ui |-> showError(u, MSG_TITLE_LONG)]
    ELSE [ok |-> TRUE, ui |-> u]

\* validateInputs that shows the error and still lets the submit go on
validateInputs_noReturn(u, title, text) ==
    IF Length(title) < TITLE_MIN THEN [ok |-> TRUE, ui |-> showError(u, MSG_TITLE_SHORT)]
    ELSE IF Length(title) > TITLE_MAX THEN [ok |-> TRUE, ui |-> showError(u, MSG_TITLE_LONG)]
    ELSE IF Length(text) < TEXT_MIN THEN [ok |-> TRUE, ui |-> showError(u, MSG_TEXT_SHORT)]
    ELSE IF Length(text) > TEXT_MAX THEN [ok |-> TRUE, ui |-> showError(u, MSG_TEXT_LONG)]
    ELSE [ok |-> TRUE, ui |-> u]

\* validateInputs (ui.js:475-497): its return value and the page it leaves
validateInputs(u, title, text) ==
    IF Length(title) < TITLE_MIN THEN [ok |-> FALSE, ui |-> showError(u, MSG_TITLE_SHORT)]
    ELSE IF Length(title) > TITLE_MAX THEN [ok |-> FALSE, ui |-> showError(u, MSG_TITLE_LONG)]
    ELSE IF Length(text) < TEXT_MIN THEN [ok |-> FALSE, ui |-> showError(u, MSG_TEXT_SHORT)]
    ELSE IF Length(text) > TEXT_MAX THEN [ok |-> FALSE, ui |-> showError(u, MSG_TEXT_LONG)]
    ELSE [ok |-> TRUE, ui |-> u]

\* a handler that lets every submit through
NeverAnalyzing == FALSE

\* the guard of handleFormSubmit (ui.js:434)
AlreadyAnalyzing == app.isAnalyzing

\* the form data handleFormSubmit reads (ui.js:440-441)
FormTitle(u) == Trim(u.newsTitle)
FormText(u) == Trim(u.newsText)
\* the flag cleared on the success branch only
handleOutcome_clearOnSuccess(u, outcome) ==
    IF outcome.success
    THEN LET r == showResults(u, outcome.data)
         IN  IF r.threw
             THEN [ui |-> showError(r.ui, MSG_UNEXPECTED), isAnalyzing |-> FALSE,
                   console |-> "Unexpected error:"]
             ELSE [ui |-> r.ui, isAnalyzing |-> FALSE, console |-> "Analysis successful"]
    ELSE [ui |-> showError(u, outcome.error), isAnalyzing |-> TRUE,
          console |-> "Analysis failed:"]

\* the flag cleared at the end of the try block instead of in a finally
handleOutcome_clearInTry(u, outcome) ==
    IF outcome.success
    THEN LET r == showResults(u, outcome.data)
         IN  IF r.threw
             THEN [ui |-> showError(r.ui, MSG_UNEXPECTED), isAnalyzing |-> TRUE,
                   console |-> "Unexpected error:"]
             ELSE [ui |-> r.ui, isAnalyzing |-> FALSE, console |-> "Analysis successful"]
    ELSE [ui |-> showError(u, outcome.error), isAnalyzing |-> FALSE,
          console |-> "Analysis failed:"]

\* handleFormSubmit after its await (ui.js:457-469): the page, the flag and
\* the console line it leaves for an outcome of detectFakeNews
handleOutcome(u, outcome) ==
    IF outcome.success
    THEN LET r == showResults(u, outcome.data)
         IN  IF r.threw
             THEN [ui |-> showError(r.ui, MSG_UNEXPECTED), isAnalyzing |-> FALSE,
                   console |-> "Unexpected error:"]
             ELSE [ui |-> r.ui, isAnalyzing |-> FALSE, console |-> "Analysis successful"]
    ELSE [ui |-> showError(u, outcome.error), isAnalyzing |-> FALSE,
          console |-> "Analysis failed:"]

\* checkBackendHealth after its await (ui.js:376-382): reading
\* result.data.is_model_loaded throws when the body was null
HealthCheckThrows(outcome) == outcome.success /\ outcome.data = Null

-----------------------------------------------------------------------------
(* The state after `new TruthLensApp()` (ui.js:348-351, 528-530): init has *)
(* run to the await of the health check, whose request is in flight.       *)

Init ==
    /\ ui = NewUI
    /\ app = [isAnalyzing |-> FALSE, listeners |-> FALSE]
    /\ req = [c \in Calls |-> IF c = 1 THEN StartCall("health") ELSE IdleCall]
    /\ console = "Checking backend health..."

\* init (ui.js:356-366) resumed by the outcome of checkHealth
InitResume(outcome) ==
    /\ ui' = ui
    /\ IF HealthCheckThrows(outcome)
       THEN app' = app /\ console' = "Backend is healthy"
       ELSE app' = [app EXCEPT !.listeners = TRUE] /\ console' = "App ready"

\* handleFormSubmit resumed by the outcome of detectFakeNews
SubmitResume(outcome) ==
    LET after == handleOutcome(ui, outcome)
    IN  /\ ui' = after.ui
        /\ app' = [app EXCEPT !.isAnalyzing = after.isAnalyzing]
        /\ console' = after.console

\* a makeRequest call settles: checkHealth or detectFakeNews resolves with
\* the outcome, and the continuation of its caller is queued
Complete(c, body, result) ==
    /\ req' = [req EXCEPT ![c] = Settled(@, body, OutcomeOf(req[c].op, result))]
    /\ UNCHANGED <<ui, app, console>>

\* no continuation is queued: the page takes the next event
Idle == \A c \in Calls : req[c].phase # "settled"

\* slots free for a new call
FreeCalls == {c \in Calls : req[c].phase = "idle"}

\* the queued continuation runs and consumes the outcome
Resume(c) ==
    /\ req[c].phase = "settled"
    /\ req' = [req EXCEPT ![c] = IdleCall]
    /\ IF req[c].op = "health" THEN InitResume(req[c].outcome)
                               ELSE SubmitResume(req[c].outcome)

\* fetch resolves with the status line and headers of a response
FetchResponds(c, status) ==
    /\ Idle
    /\ req[c].phase = "fetch"
    /\ req' = [req EXCEPT ![c] = ResponseReceived(@, status)]
    /\ UNCHANGED <<ui, app, console>>

\* response.json() settles: the body has been read
BodyRead(c, body) ==
    /\ Idle
    /\ req[c].phase = "body"
    /\ body \in Bodies(req[c].op, Ok(req[c].status))
    /\ Complete(c, body, BodyResult(req[c].status, body))

\* the connection fails while fetch() or response.json() is pending
NetworkFails(c) ==
    /\ Idle
    /\ Outstanding(req[c])
    /\ Complete(c, NoBody, CatchResult("TypeError", MSG_FETCH_FAILED))

\* the abort timer of api.js:17 runs: controller.abort() rejects the pending
\* promise with an AbortError
TimeoutFires(c) ==
    /\ Idle
    /\ Outstanding(req[c])
    /\ req[c].timer
    /\ req[c].elapsed >= REQUEST_TIMEOUT
    /\ Complete(c, NoBody, CatchResult("AbortError", "The user aborted a request."))

\* time passes; a timer that is due runs before more time passes
Tick ==
    /\ Idle
    /\ \E c \in Calls : Outstanding(req[c])
    /\ \A c \in Calls :
          Outstanding(req[c]) =>
             /\ req[c].elapsed < MaxTicks * TickMs
             /\ ~(req[c].timer /\ req[c].elapsed >= REQUEST_TIMEOUT)
    /\ req' = [c \in Calls |->
                 IF Outstanding(req[c])
                 THEN [req[c] EXCEPT !.elapsed = @ + TickMs]
                 ELSE req[c]]
    /\ UNCHANGED <<ui, app, console>>

\* handleFormSubmit (ui.js:431-455) up to its await; an analysis is followed
\* only while an interval id, a call slot and a typing interval are free
HandleFormSubmit ==
    /\ Idle
    /\ app.listeners
    /\ IF AlreadyAnalyzing
       THEN /\ console' = "Analysis already in progress"
            /\ UNCHANGED <<ui, app, req>>
       ELSE LET v == validateInputs(ui, FormTitle(ui), FormText(ui))
            IN  IF ~v.ok
                THEN /\ ui' = v.ui
                     /\ UNCHANGED <<app, req, console>>
                ELSE /\ FreeIds(ui) # {}
                     /\ FreeCalls # {}
                     /\ Len(ui.typing) < MaxTyping
                     /\ app' = [app EXCEPT !.isAnalyzing = TRUE]
                     /\ ui' = showLoading(v.ui)
                     /\ req' = [req EXCEPT ![Lowest(FreeCalls)] = StartCall("detect")]
                     /\ console' = "Text length:"

\* click on analyzeAnotherBtn (ui.js:406-407)
AnalyzeAnother ==
    /\ Idle
    /\ app.listeners
    /\ ui' = resetToForm(ui)
    /\ UNCHANGED <<app, req, console>>

\* click on retryBtn (ui.js:410-411)
Retry ==
    /\ Idle
    /\ app.listeners
    /\ ui' = resetToForm(ui)
    /\ UNCHANGED <<app, req, console>>

\* click on a sample button (ui.js:398-403)
SampleClick(type) ==
    /\ Idle
    /\ app.listeners
    /\ ui' = fillSample(ui, type)
    /\ UNCHANGED <<app, req, console>>

\* the user edits the title field; no listener is attached to it
EditTitle(value) ==
    /\ Idle
    /\ ui' = [ui EXCEPT !.newsTitle = value]
    /\ UNCHANGED <<app, req, console>>

\* the user edits the text field; its input listener (ui.js:394-395), once
\* installed, updates the character count
EditText(value) ==
    /\ Idle
    /\ ui' = IF app.listeners
             THEN updateCharCount([ui EXCEPT !.newsText = value])
             ELSE [ui EXCEPT !.newsText = value]
    /\ UNCHANGED <<app, req, console>>

\* click on a tab button (ui.js:417-423)
TabClick(tab) ==
    /\ Idle
    /\ app.listeners
    /\ ui' = filterHighlights(ui, tab)
    /\ UNCHANGED <<app, req, console>>

\* a typing interval fires (ui.js:131-138)
TypingTick(k) ==
    /\ Idle
    /\ k \in 1..Len(ui.typing)
    /\ ui' = typeNext(ui, k)
    /\ UNCHANGED <<app, req, console>>

\* a rotation interval fires (ui.js:30-33)
RotationTick(id) ==
    /\ Idle
    /\ id \in ui.intervals
    /\ ui' = rotateMessage(ui, id)
    /\ UNCHANGED <<app, req, console>>

Next ==
    \/ \E c \in Calls, status \in Statuses : FetchResponds(c, status)
    \/ \E c \in Calls : \E body \in Bodies(req[c].op, Ok(req[c].status)) : BodyRead(c, body)
    \/ \E c \in Calls : NetworkFails(c)
    \/ \E c \in Calls : TimeoutFires(c)
    \/ \E c \in Calls : Resume(c)
    \/ Tick
    \/ HandleFormSubmit
    \/ AnalyzeAnother
    \/ Retry
    \/ \E type \in DOMAIN SAMPLES : SampleClick(type)
    \/ \E value \in TitleValues : EditTitle(value)
    \/ \E value \in TextValues : EditText(value)

Spec == Init /\ [][Next]_vars

(* The validator on its own: the page once the listeners are installed,    *)
(* fields typed at the limits of the rules, submits and retries.           *)

InitReady ==
    /\ ui = NewUI
    /\ app = [isAnalyzing |-> FALSE, listeners |-> TRUE]
    /\ req = [c \in Calls |-> IdleCall]
    /\ console = "App ready"

NextValidate ==
    \/ HandleFormSubmit
    \/ Retry
    \/ \E value \in BoundaryTitles : EditTitle(value)
    \/ \E value \in BoundaryTexts : EditText(value)

SpecValidate == InitReady /\ [][NextValidate]_vars

(* The renderer on its own: the page once the listeners are installed, the *)
(* form filled from the samples, a backend that answers 200 with any body, *)
(* the tab buttons and the rotation interval.                              *)

NextRender ==
    \/ \E type \in DOMAIN SAMPLES : SampleClick(type)
    \/ HandleFormSubmit
    \/ \E c \in Calls : FetchResponds(c, 200)
    \/ \E c \in Calls : \E body \in Bodies(req[c].op, Ok(req[c].status)) : BodyRead(c, body)
    \/ \E c \in Calls : Resume(c)
    \/ AnalyzeAnother
    \/ Retry
    \/ \E tab \in Tabs : TabClick(tab)
    \/ \E id \in 1..MaxTimers : RotationTick(id)

SpecRender == InitReady /\ [][NextRender]_vars

(* The typing effect on its own: the same page and backend, and the typing *)
(* intervals firing in any order.                                          *)

NextTyping ==
    \/ \E type \in DOMAIN SAMPLES : SampleClick(type)
    \/ HandleFormSubmit
    \/ \E c \in Calls : FetchResponds(c, 200)
    \/ \E c \in Calls : \E body \in Bodies(req[c].op, Ok(req[c].status)) : BodyRead(c, body)
    \/ \E c \in Calls : Resume(c)
    \/ AnalyzeAnother
    \/ Retry
    \/ \E k \in 1..MaxTyping : TypingTick(k)

SpecTyping == InitReady /\ [][NextTyping]_vars

-----------------------------------------------------------------------------
(* Single flight *)

\* the detectFakeNews calls whose request is on the network
OutstandingDetect == {c \in Calls : req[c].op = "detect" /\ Outstanding(req[c])}

\* C1: at most one detectFakeNews request is outstanding at any time; a
\* submit handled while isAnalyzing is true changes nothing but the console
\* line it logs; and a request starts only in the step of a submit handled
\* while isAnalyzing is false, so a dropped submit is never replayed when
\* the pending request settles.
C1_SingleFlight ==
    /\ [](Cardinality(OutstandingDetect) <= 1)
    /\ [][(app.isAnalyzing /\ HandleFormSubmit) => UNCHANGED <<ui, app, req>>]_vars
    /\ [][(OutstandingDetect' \ OutstandingDetect # {})
            => (~app.isAnalyzing /\ HandleFormSubmit)]_vars

\* a submit has been dropped while a request was outstanding
C1_Witness ==
    /\ console = "Analysis already in progress"
    /\ app.isAnalyzing
    /\ Cardinality(OutstandingDetect) = 1

-----------------------------------------------------------------------------
(* Timeout *)

\* C2: a transport call that has not produced its result within the
\* configured timeout has settled (with the timeout message): no call is
\* still unresolved a full tick after its timeout, whether it waits for the
\* response or for the body.
C2_TimeoutSettles ==
    \A c \in Calls : Outstanding(req[c]) => req[c].elapsed < REQUEST_TIMEOUT + TickMs

-----------------------------------------------------------------------------
(* Cleanup of isAnalyzing *)

\* the step in which handleFormSubmit resumes with the outcome of call c
OutcomeHandled(c) ==
    /\ req[c].op = "detect"
    /\ req[c].phase = "settled"
    /\ req'[c].phase = "idle"

\* results whose rendering raises an exception
Unrenderable == {Null, NoIdResult}

\* C3: once the outcome of the transport call has been handled, isAnalyzing
\* is false, on each path: a successful outcome that renders leaves Results
\* visible, a failed outcome leaves Error visible with the outcome's message,
\* and an exception raised while rendering leaves Error visible with the
\* generic message.
C3_FlagCleared ==
    [][\A c \in Calls :
          OutcomeHandled(c) =>
             LET o == req[c].outcome
             IN  /\ ~app'.isAnalyzing
                 /\ (o.success /\ o.data \notin Unrenderable)
                       => Visible(ui') = {"results"}
                 /\ (o.success /\ o.data \in Unrenderable)
                       => Visible(ui') = {"error"} /\ ui'.errorMessage = MSG_UNEXPECTED
                 /\ ~o.success
                       => Visible(ui') = {"error"} /\ ui'.errorMessage = o.error]_vars

\* an exception raised by the rendering has been handled
C3_Witness ==
    /\ console = "Unexpected error:"
    /\ ~app.isAnalyzing
    /\ Visible(ui) = {"error"}
    /\ ui.errorMessage = MSG_UNEXPECTED
    /\ ui.currentResults = NoIdResult

-----------------------------------------------------------------------------
(* Mutually exclusive sections *)

\* results showResults may be given
Results == {FakeResult, RealResult, BareResult, NoIdResult, Null}

\* C4: exactly one of the four sections is visible, and from any reachable
\* page showLoading, showResults, showError and resetToForm each leave their
\* own section visible and the other three hidden.
C4_OneSection ==
    /\ Cardinality(Visible(ui)) = 1
    /\ FreeIds(ui) # {} => Visible(showLoading(ui)) = {"loading"}
    /\ \A data \in Results : Visible(showResults(ui, data).ui) = {"results"}
    /\ Visible(showError(ui, MSG_UNEXPECTED)) = {"error"}
    /\ Visible(resetToForm(ui)) = {"form"}

\* an error is shown over a page that had shown a result
C4_Witness ==
    /\ Visible(ui) = {"error"}
    /\ ui.currentResults \in {FakeResult, RealResult}

-----------------------------------------------------------------------------
(* Transitions of the visible state *)

\* the form holds an AnalysisRequest: a title of 5 to 500 and a text of 20 to
\* 10,000 characters between the surrounding whitespace
ValidForm(u) ==
    /\ u.newsTitle.core >= 5 /\ u.newsTitle.core <= 500
    /\ u.newsText.core >= 20 /\ u.newsText.core <= 10000

\* a click on the retry or on the analyze-another button
ResetStep == Retry \/ AnalyzeAnother

\* C5: Loading is entered only from Form by a valid submit; Results is
\* entered only from Loading by a successful outcome; an outcome is applied
\* only while Loading is visible, and a failed one then leaves Error visible;
\* Form is entered only from Results or Error by reset or retry; and reset
\* or retry never runs while a request is pending.
C5_ListedTransitions ==
    [][/\ (Visible(ui') = {"loading"} /\ Visible(ui) # {"loading"})
             => (Visible(ui) = {"form"} /\ HandleFormSubmit /\ ValidForm(ui))
       /\ (Visible(ui') = {"results"} /\ Visible(ui) # {"results"})
             => /\ Visible(ui) = {"loading"}
                /\ \E c \in Calls : OutcomeHandled(c) /\ req[c].outcome.success
       /\ \A c \in Calls : OutcomeHandled(c) => Visible(ui) = {"loading"}
       /\ \A c \in Calls :
             (OutcomeHandled(c) /\ ~req[c].outcome.success) => Visible(ui') = {"error"}
       /\ (Visible(ui') = {"form"} /\ Visible(ui) # {"form"})
             => (Visible(ui) \in {{"results"}, {"error"}} /\ ResetStep)
       /\ ResetStep => ~app.isAnalyzing]_vars

-----------------------------------------------------------------------------
(* The message-rotation timer *)

\* C6: no rotation timer is live while Loading is hidden, at most one is live
\* at any time, and a live one is the one whose handle the page holds.
C6_TimerOwned ==
    /\ ui.hidden.loading => ui.intervals = {}
    /\ Cardinality(ui.intervals) <= 1
    /\ ui.intervals # {} => ui.loadingInterval \in ui.intervals

\* Loading has been left for Results and its timer is cancelled
C6_Witness ==
    /\ Visible(ui) = {"results"}
    /\ ui.currentResults \in {FakeResult, RealResult}
    /\ ui.intervals = {}
    /\ ui.loadingInterval = 0

-----------------------------------------------------------------------------
(* Validation *)

\* the message of the first rule, in the order title too short, title too
\* long, text too short, text too long, that the trimmed form data fail
FirstFailing(u) ==
    IF u.newsTitle.core < 5 THEN MSG_TITLE_SHORT
    ELSE IF u.newsTitle.core > 500 THEN MSG_TITLE_LONG
    ELSE IF u.newsText.core < 20 THEN MSG_TEXT_SHORT
    ELSE MSG_TEXT_LONG

\* C7: validateInputs on the trimmed fields accepts exactly when the title
\* has 5 to 500 and the text 20 to 10,000 characters, and otherwise shows
\* the message of the first failing rule in the fixed order.
C7_Validate ==
    LET v == validateInputs(ui, FormTitle(ui), FormText(ui))
    IN  /\ v.ok <=> ValidForm(ui)
        /\ v.ok => v.ui = ui
        /\ ~v.ok => (v.ui.errorMessage = FirstFailing(ui) /\ Visible(v.ui) = {"error"})

\* a submit with a too short title and a too long text reported the title
C7_Witness ==
    /\ ui.newsTitle.core < 5
    /\ ui.newsText.core > 10000
    /\ Visible(ui) = {"error"}
    /\ ui.errorMessage = MSG_TITLE_SHORT

\* C8: a submit whose trimmed fields fail validation leaves Error visible
\* with the validator's message and changes nothing else: no call is
\* started, isAnalyzing stays false, Loading stays hidden and no rotation
\* timer is started.
C8_RejectedSubmit ==
    [][(HandleFormSubmit /\ ~app.isAnalyzing /\ ~ValidForm(ui))
          => /\ Visible(ui') = {"error"}
             /\ ui'.errorMessage = FirstFailing(ui)
             /\ req' = req
             /\ app' = app
             /\ ui'.intervals = {} /\ ui'.loadingInterval = 0
             /\ ui' = [ui EXCEPT !.hidden = ui'.hidden, !.errorMessage = ui'.errorMessage]
             /\ console' = console]_vars

\* a rejected submit has left its message and no request
C8_Witness ==
    /\ Visible(ui) = {"error"}
    /\ ui.errorMessage = MSG_TEXT_LONG
    /\ ~app.isAnalyzing
    /\ \A c \in Calls : req[c].phase = "idle"
    /\ ui.intervals = {}

-----------------------------------------------------------------------------
(* Errors *)

\* C9: for a response that is not ok whose body has been read, the outcome
\* is a failure whose message is the backend's error string when the body
\* parses as {error: string}, and the generic HTTP message of the status
\* when the body cannot be parsed as JSON.
C9_HttpError ==
    \A c \in Calls :
       (req[c].phase = "settled" /\ req[c].status # 0 /\ ~Ok(req[c].status))
          => /\ req[c].body = JsonBody(ErrorPayload)
                   => req[c].outcome = Failure(ErrorPayload.error)
             /\ req[c].body = HtmlBody
                   => req[c].outcome = Failure(HttpErrorMessage(req[c].status))

\* the messages an error can show
ErrorMessages ==
    { MSG_TITLE_SHORT, MSG_TITLE_LONG, MSG_TEXT_SHORT, MSG_TEXT_LONG,
      MSG_TIMEOUT, MSG_UNEXPECTED, MSG_FETCH_FAILED, MSG_JSON_SYNTAX,
      MSG_NULL_PROPERTY, MSG_NULL_PREDICTION, ErrorPayload.error } \cup {HttpErrorMessage(st) : st \in Statuses}

\* C10: whenever Error is visible it shows one message, isAnalyzing is
\* false and no detectFakeNews request is outstanding; a failed outcome
\* (timeout, HTTP error, other transport failure), a rendering exception
\* and a rejected submit each end in Error and the step starts no request;
\* retry from Error leaves Form visible with isAnalyzing false; and a valid
\* submit handled while isAnalyzing is false starts a new analysis.
C10_ErrorsNonFatal ==
    /\ [](~ui.hidden.error
            => /\ Visible(ui) = {"error"}
               /\ ui.errorMessage \in ErrorMessages
               /\ ~app.isAnalyzing
               /\ OutstandingDetect = {})
    /\ [][\A c \in Calls :
             (OutcomeHandled(c) /\ ~req[c].outcome.success)
                => /\ Visible(ui') = {"error"}
                   /\ ui'.errorMessage = req[c].outcome.error
                   /\ OutstandingDetect' = {}]_vars
    /\ [][\A c \in Calls :
             (OutcomeHandled(c) /\ req[c].outcome.success
                /\ req[c].outcome.data \in Unrenderable)
                => (Visible(ui') = {"error"} /\ OutstandingDetect' = {})]_vars
    /\ [][(HandleFormSubmit /\ ~app.isAnalyzing /\ ~ValidForm(ui))
             => (Visible(ui') = {"error"} /\ OutstandingDetect' = {})]_vars
    /\ [][(Retry /\ ~ui.hidden.error)
             => (Visible(ui') = {"form"} /\ ~app'.isAnalyzing)]_vars
    /\ [][(HandleFormSubmit /\ ~app.isAnalyzing /\ ValidForm(ui))
             => (app'.isAnalyzing /\ Cardinality(OutstandingDetect') = 1
                 /\ Visible(ui') = {"loading"})]_vars

\* after a timeout was shown, a new analysis is running
C10_Witness ==
    /\ Visible(ui) = {"loading"}
    /\ ui.errorMessage = MSG_TIMEOUT
    /\ app.isAnalyzing
    /\ Cardinality(OutstandingDetect) = 1

-----------------------------------------------------------------------------
(* The highlight filter *)

\* the step in which call c hands a result to showResults
ResultShown(c) == OutcomeHandled(c) /\ req[c].outcome.success

\* the highlight items among the children of the grid
HighlightItems(u) == SelectSeq(u.highlightsGrid, IsHighlightItem)

\* the word_highlights of a result, empty when the member is absent
HighlightsOf(data) ==
    IF "word_highlights" \in DOMAIN data THEN data.word_highlights ELSE << >>

\* C11 (as claimed): whenever a result is shown after the user selected the
\* Fake or Real tab on an earlier result, the new result is rendered with
\* the All filter: every highlight item of the new result is visible.
C11_ResetsToAll ==
    [][\A c \in Calls :
          (ResultShown(c) /\ ui.currentResults # Null
             /\ ui.currentTab # "all" /\ ui.activeTabs = {ui.currentTab})
             => \A i \in DOMAIN HighlightItems(ui') :
                   HighlightItems(ui')[i].display = "flex"]_vars

\* C11 (amended): showing a result leaves the selected filter as it was,
\* and an item of the new result is visible exactly when that filter is All
\* or equals the item's direction.
C11_FilterPersists ==
    [][\A c \in Calls :
          ResultShown(c)
             => LET highlights == HighlightsOf(req[c].outcome.data)
                    items == HighlightItems(ui')
                IN  /\ ui'.currentTab = ui.currentTab
                    /\ Len(items) = Len(highlights)
                    /\ \A i \in DOMAIN items :
                          (items[i].display = "flex")
                             <=> (ui.currentTab = "all"
                                    \/ ui.currentTab = highlights[i].direction)]_vars

\* a second result has been rendered under the Fake filter, its item of
\* direction real hidden
C11_Witness ==
    /\ Visible(ui) = {"results"}
    /\ console = "Analysis successful"
    /\ Len(ui.typing) = 2
    /\ ui.currentResults = FakeResult
    /\ ui.currentTab = "fake"
    /\ ui.activeTabs = {"fake"}
    /\ ui.highlightsGrid[1].display = "flex"
    /\ ui.highlightsGrid[2].display = "none"

\* C12: while a result is displayed, a click on a tab leaves visible exactly
\* the rendered items whose direction in the stored result equals the tab
\* (all of them for 'all') and hides the others; the children of the grid
\* keep their number, order and content, and the stored result, the visible
\* section, isAnalyzing and the transport calls are unchanged.
C12_FilterFrame ==
    [][\A tab \in Tabs :
          (TabClick(tab) /\ Visible(ui) = {"results"})
             => LET before == ui.highlightsGrid
                    after == ui'.highlightsGrid
                    highlights == HighlightsOf(ui.currentResults)
                IN  /\ Len(after) = Len(before)
                    /\ \A i \in DOMAIN after :
                          /\ after[i].tag = before[i].tag
                          /\ after[i].class = before[i].class
                          /\ after[i].word = before[i].word
                    /\ Len(HighlightItems(ui')) = Len(highlights)
                    /\ \A i \in DOMAIN HighlightItems(ui') :
                          /\ HighlightItems(ui')[i].word = highlights[i].word
                          /\ HighlightItems(ui')[i].display \in {"flex", "none"}
                          /\ (HighlightItems(ui')[i].display = "flex")
                                <=> (tab = "all" \/ tab = highlights[i].direction)
                    /\ ui'.currentResults = ui.currentResults
                    /\ ui'.hidden = ui.hidden
                    /\ app' = app
                    /\ req' = req]_vars

\* the Real tab was clicked on a displayed result of one fake and one real
\* item: the first is hidden, the second visible
C12_Witness ==
    /\ Visible(ui) = {"results"}
    /\ ui.currentResults = FakeResult
    /\ ui.currentTab = "real"
    /\ ui.activeTabs = {"real"}
    /\ Len(ui.highlightsGrid) = 2
    /\ ui.highlightsGrid[1].display = "none"
    /\ ui.highlightsGrid[2].display = "flex"
    /\ Len(ui.typing) = 1

-----------------------------------------------------------------------------
(* Rendering of a result *)

\* C13: a result is rendered completely or not at all: when showResults
\* throws on a response, the stored result, the header, the percentages,
\* the highlight items, the explanation with its typing intervals and the
\* metadata are as they were before the response was handled.
C13_AllOrNothing ==
    [][\A c \in Calls :
          (ResultShown(c) /\ req[c].outcome.data \in Unrenderable)
             => /\ ui'.currentResults = ui.currentResults
                /\ ui'.badge = ui.badge
                /\ ui'.probValues = ui.probValues
                /\ ui'.highlightsGrid = ui.highlightsGrid
                /\ ui'.explanationText = ui.explanationText
                /\ ui'.typing = ui.typing
                /\ ui'.processingTime = ui.processingTime
                /\ ui'.requestId = ui.requestId]_vars

-----------------------------------------------------------------------------
(* Reset *)

\* C14: resetToForm invoked from Results or from Error leaves Form visible,
\* the title and text fields empty and the character count at 0 (shown as
\* '0 / 10,000').
C14_ResetClears ==
    [][(ResetStep /\ Visible(ui) \in {{"results"}, {"error"}})
          => /\ Visible(ui') = {"form"}
             /\ Length(ui'.newsTitle) = 0
             /\ Length(ui'.newsText) = 0
             /\ ui'.charCount = 0]_vars

\* the form is back and empty after a result had been shown
C14_Witness ==
    /\ Visible(ui) = {"form"}
    /\ ui.currentResults \in {FakeResult, RealResult, BareResult}
    /\ console = "Analysis successful"
    /\ ~app.isAnalyzing
    /\ ui.newsTitle = EmptyStr
    /\ ui.newsText = EmptyStr
    /\ ui.charCount = 0

\* C15: the object handed to showResults and stored as currentResults is
\* the body of the response, unchanged; and while a result is displayed the
\* request id element shows the first 13 characters of its request_id (all
\* of them when it has fewer) followed by '...', with the whole request_id
\* in its title.
C15_PassThrough ==
    /\ [][\A c \in Calls :
             ResultShown(c) => ui'.currentResults = req[c].body.value]_vars
    /\ [](Visible(ui) = {"results"}
            => LET id == ui.currentResults.request_id
                   shown == ui.requestId.text
                   kept == IF Len(id) < 13 THEN Len(id) ELSE 13
               IN  /\ Len(shown) = kept + 3
                   /\ \A i \in 1..kept : shown[i] = id[i]
                   /\ \A i \in kept + 1..kept + 3 : shown[i] = "."
                   /\ ui.requestId.title = id)

\* a result with a request_id of 18 characters is displayed
C15_Witness ==
    /\ Visible(ui) = {"results"}
    /\ ui.currentResults = FakeResult
    /\ Len(ui.currentResults.request_id) = 18
    /\ ui.requestId.text = <<"r", "e", "q", "-", "0", "0", "0", "1", "-",
                              "a", "a", "a", "a", ".", ".", ".">>
    /\ ui.requestId.title = FakeResult.request_id

\* C16: rendering a result whose word_highlights is empty or absent leaves
\* in the grid exactly one placeholder and no highlight item; rendering a
\* list of n > 0 highlights leaves exactly n highlight items, in the order
\* of the list, and no placeholder; nothing of an earlier rendering stays.
C16_GridRendered ==
    [][\A c \in Calls :
          ResultShown(c)
             => LET highlights == HighlightsOf(req[c].outcome.data)
                    grid == ui'.highlightsGrid
                IN  IF Len(highlights) = 0
                    THEN /\ Len(grid) = 1
                         /\ grid[1].tag = "p"
                         /\ Len(HighlightItems(ui')) = 0
                    ELSE /\ Len(grid) = Len(highlights)
                         /\ \A i \in DOMAIN grid :
                               /\ grid[i].tag = "div"
                               /\ grid[i].word = highlights[i].word
                               /\ grid[i].class = highlights[i].direction]_vars

\* a result without word_highlights was rendered after one with items: the
\* grid holds the placeholder alone
C16_Witness ==
    /\ Visible(ui) = {"results"}
    /\ ui.currentResults = BareResult
    /\ Len(ui.typing) = 2
    /\ ui.typing[1].text = FakeResult.explanation
    /\ ui.typing[2].text = BareResult.explanation
    /\ ui.highlightsGrid = <<Placeholder>>

-----------------------------------------------------------------------------
(* The typing effect *)

IsPrefix(s, t) == Len(s) <= Len(t) /\ \A i \in 1..Len(s) : s[i] = t[i]

\* C17: once a result has been shown, the explanation display is at every
\* moment a prefix of the explanation of the current result, and when no
\* typing interval is left it is the whole explanation, also when the
\* result was shown while the typing interval of an earlier result was
\* still running.
C17_TypedPrefix ==
    ui.currentResults # Null
       => /\ IsPrefix(ui.explanationText, ui.currentResults.explanation)
          /\ ui.typing = << >> => ui.explanationText = ui.currentResults.explanation

-----------------------------------------------------------------------------
(* The status string of the loading section *)

\* the string that follows m in LOADING_MESSAGES, the first after the last
MessageAfter(m) ==
    LET i == CHOOSE j \in 1..Len(LOADING_MESSAGES) : LOADING_MESSAGES[j] = m
    IN  LOADING_MESSAGES[(i % Len(LOADING_MESSAGES)) + 1]

\* C18: while Loading is visible, each tick of the rotation interval
\* replaces the displayed status string by the string that follows it in
\* LOADING_MESSAGES, wrapping from the last to the first, in every Loading
\* period.
C18_NextMessage ==
    [][\A id \in 1..MaxTimers :
          (RotationTick(id) /\ ~ui.hidden.loading)
             => ui'.loadingStep = MessageAfter(ui.loadingStep)]_vars

-----------------------------------------------------------------------------
(* Loading and isAnalyzing *)

\* the detectFakeNews calls whose outcome handleFormSubmit still awaits
PendingDetect == {c \in Calls : req[c].op = "detect"}

\* C19: Loading is visible exactly when isAnalyzing is true, which is
\* exactly while a detectFakeNews call is pending; the form is never shown
\* while a request is pending.
C19_LoadingIffAnalyzing ==
    /\ ~ui.hidden.loading <=> app.isAnalyzing
    /\ app.isAnalyzing <=> PendingDetect # {}
    /\ ~(Visible(ui) = {"form"} /\ PendingDetect # {})

-----------------------------------------------------------------------------
(* The active tab *)

\* C20: the tab button marked active is the one that names currentTab, and
\* the highlight items that are visible are those the active tab selects,
\* after any sequence of tab clicks and renderings, a tab click before the
\* first result included.
C20_ActiveTabApplied ==
    /\ ui.activeTabs = {ui.currentTab}
    /\ \A tab \in ui.activeTabs :
          \A i \in DOMAIN HighlightItems(ui) :
             (HighlightItems(ui)[i].display = "flex")
                <=> (tab = "all" \/ tab = HighlightItems(ui)[i].class)

-----------------------------------------------------------------------------
(* Startup *)

\* the step in which init resumes with the outcome of the health check
HealthHandled(c) ==
    /\ req[c].op = "health"
    /\ req[c].phase = "settled"
    /\ req'[c].phase = "idle"

\* the health check has not settled yet
HealthPending == \E c \in Calls : req[c].op = "health" /\ Outstanding(req[c])

\* C21: the listeners are installed only after the health check has
\* settled, no submit is handled before, and once its outcome, a success or
\* a failure, has been handled the listeners are installed and the app is
\* ready.
C21_ReadyAfterHealth ==
    /\ [](HealthPending => (~app.listeners /\ ~app.isAnalyzing /\ OutstandingDetect = {}))
    /\ [][(~app.listeners /\ app'.listeners) => \E c \in Calls : HealthHandled(c)]_vars
    /\ [][\A c \in Calls :
             HealthHandled(c) => (app'.listeners /\ console' = "App ready")]_vars

====
